---- MODULE Spec2Model ----
(***************************************************************************)
(* Voice interview session orchestrator of src/voice_interview_handler.py: *)
(* WebSocketVoiceInterviewHandler (the session map and its public          *)
(* operations) over WebSocketOptimizedVoiceInterview (one interview: the   *)
(* counters, the history, the diversity sets, the audio queue and the TTS  *)
(* thread pool that fills it).                                             *)
(***************************************************************************)
EXTENDS Integers, Sequences, FiniteSets, Bags, TLC

VARIABLES
    sessions,      \* keys of handler.sessions (session_id -> interview)
    audio_chunks,  \* keys of handler.audio_chunks (each buffer stays [])
    interview,     \* the interview object made for each session id
    ret,           \* the dict returned by the last handler call
    delivered,     \* observer: last question get_next_question handed out, per id
    awaiting,      \* observer: a delivered question is waiting for its answer, per id
    budget,        \* observer: irregular events the run may still take
    pending        \* handler calls between their membership check and their lookup

vars == <<sessions, audio_chunks, interview, ret, delivered, awaiting, budget,
          pending>>

----------------------------------------------------------------------------
(* Bounds of the model *)

\* submit_answer has no upper guard on the counter: it is explored up to here
MaxAsked == 17
\* irregular events during one run, of three kinds:
\*   a degraded collaborator outcome stored in a session (no audio for a queued
\*   question, a failed generation in the pool, an empty or failed transcription,
\*   a failed parse of the resume or of the job description);
\*   a client call out of turn (a second get_next_question before the answer, a
\*   submit_answer with no question delivered since the last);
\*   a handler call made while tasks of the session's pool are waiting or running
MaxIrregular == 1
\* answers per interview in the runs with two clients
PairAsked == 1
\* handler calls that are between their membership check and their lookup
MaxPending == 2
\* get_next_question calls a client repeats without an answer in between
MaxRepeats == 18

(* Program constants *)

max_questions == 15
max_workers == 3
SpeculativeTasks == 7

SessionIds == {"s1"}
\* the session ids of the runs with two clients
PairIds == {"s1", "s2"}

----------------------------------------------------------------------------
(* Texts.  A text is a string; what Python's lower() and `in` give on the   *)
(* texts of the model is tabulated in Lower and Occurs.                     *)

fixed_starter_questions ==
    << [text |-> "Introduce yourself.", type |-> "introduction", order |-> 1],
       [text |-> "Why are you interested in this role and company?",
        type |-> "behavioral", order |-> 2],
       [text |-> "What's your biggest weakness and how are you improving it?",
        type |-> "behavioral", order |-> 3] >>

UnknownQuestion == "Unknown question"
SyncFallbackQuestion ==
    "Tell me about your problem-solving approach when facing technical challenges."
\* what the text model answers to a question prompt
GeneratedQuestion == "How did you use Go in production?"
\* what the text model answers to a transcription request
SpokenAnswer == "I lead the Go team of Ava"
\* str(e) of the exception a failed transcription raises
TranscribeError == "timeout"
TranscriptionFailed == "[Transcription failed: timeout]"

Categories ==
    << "technical_skills", "projects_deep_dive", "certifications", "behavioral",
       "situational", "leadership", "problem_solving", "communication",
       "career_goals" >>

QuestionTypes == {"introduction"} \cup {Categories[i] : i \in 1..Len(Categories)}

topic_keywords ==
    [leadership |-> {"lead", "manage", "team", "mentor"},
     challenges |-> {"challenge", "problem", "difficult", "issue"},
     learning |-> {"learn", "new", "study", "research"},
     teamwork |-> {"team", "collaborate", "work together"},
     communication |-> {"explain", "present", "communicate", "document"}]

Lower(t) ==
    CASE t = "Go" -> "go"
      [] t = "SQL" -> "sql"
      [] t = "Ava" -> "ava"
      [] t = "I lead the Go team of Ava" -> "i lead the go team of ava"
      [] t = "How did you use Go in production?" -> "how did you use go in production?"
      [] t = "Introduce yourself." -> "introduce yourself."
      [] t = "Why are you interested in this role and company?"
           -> "why are you interested in this role and company?"
      [] t = "What's your biggest weakness and how are you improving it?"
           -> "what's your biggest weakness and how are you improving it?"
      [] t = "Unknown question" -> "unknown question"
      [] t = "Tell me about your problem-solving approach when facing technical challenges."
           -> "tell me about your problem-solving approach when facing technical challenges."
      [] t = "[Transcription failed: timeout]" -> "[transcription failed: timeout]"
      [] OTHER -> t

\* needle in haystack, for lowercased texts of the model
Occurs(needle, haystack) ==
    CASE haystack = "i lead the go team of ava"
           -> needle \in {"go", "ava", "lead", "team"}
      [] haystack = "how did you use go in production?" -> needle \in {"go"}
      [] haystack = "tell me about your problem-solving approach when facing technical challenges."
           -> needle \in {"problem", "challenge"}
      [] OTHER -> FALSE

----------------------------------------------------------------------------
(* JSON values the text model returns for a resume *)

JStr(s) == [tag |-> "str", val |-> s]
JNum(s) == [tag |-> "num", val |-> s]
JObj(name) == [tag |-> "obj", val |-> name]

\* parse_resume: json.loads of whatever object the model wrote, or {"error": ..}
WellFormedResume ==
    [error |-> FALSE, name |-> "Ada",
     skills |-> <<JStr("Go"), JStr("SQL")>>, projects |-> <<JObj("Ava")>>]

\* {"error": ...}: the text had no JSON object, or the request or json.loads
\* raised
ResumeParseError ==
    [error |-> TRUE, name |-> "Unknown", skills |-> <<>>, projects |-> <<>>]

ResumeOutcomes ==
    { WellFormedResume,
      [error |-> FALSE, name |-> "Ada",
       skills |-> <<JStr("Go"), JNum("42")>>, projects |-> <<>>],
      ResumeParseError }

\* analyze_job_description: likewise
WellFormedJob == [error |-> FALSE, job_title |-> "Backend Engineer"]

JobParseError == [error |-> TRUE, job_title |-> "Unknown Position"]

JobOutcomes ==
    { WellFormedJob, JobParseError }

\* the empty dicts of a new interview
EmptyResume == [error |-> FALSE, name |-> "Unknown", skills |-> <<>>, projects |-> <<>>]
EmptyJob == [error |-> FALSE, job_title |-> "Unknown Position"]

----------------------------------------------------------------------------
(* WebSocketOptimizedVoiceInterview.__init__ *)

NewInterview ==
    [resume_data |-> EmptyResume,
     job_data |-> EmptyJob,
     qa_history |-> <<>>,
     questions_asked |-> 0,
     question_types_used |-> [t \in QuestionTypes |-> 0],
     covered_topics |-> {},
     projects_discussed |-> {},
     skills_discussed |-> {},
     audio_queue |-> <<>>,
     work_queue |-> <<>>,
     running |-> EmptyBag]

NoRet ==
    [op |-> "none", sid |-> "none", success |-> FALSE, error |-> "",
     question_number |-> 0, question_text |-> "", question_type |-> "",
     has_audio |-> FALSE, transcription |-> "", next_available |-> FALSE,
     overall_score |-> 0, selected |-> FALSE]

Failure(op, s, msg) == [NoRet EXCEPT !.op = op, !.sid = s, !.error = msg]

NothingDelivered == [number |-> 0, text |-> ""]

\* the handler after construction, in a run that may take `irregular` events
InitWith(irregular) ==
    /\ sessions = {}
    /\ audio_chunks = {}
    /\ interview = [s \in PairIds |-> NewInterview]
    /\ ret = NoRet
    /\ delivered = [s \in PairIds |-> NothingDelivered]
    /\ awaiting = [s \in PairIds |-> FALSE]
    /\ budget = irregular
    /\ pending = {}

Init == InitWith(MaxIrregular)

----------------------------------------------------------------------------
(* Calls to the external models.  Each takes the outcome of the call as an  *)
(* argument; the actions below draw it.                                     *)

None == "None"
AudioBytes == "audio"

\* generate_tts_audio: the inline audio of the response, None when the
\* response carries none or the call raises
TtsOutcomes == {"audio", "no_audio", "error"}
generate_tts_audio(outcome) ==
    IF outcome = "audio" THEN AudioBytes ELSE None

\* text_model.generate_content(prompt) for a question: a text, a blank text,
\* or the call raises
TextOutcomes == {"ok", "blank", "error"}

\* response.text of a transcription request, or the call raises
TranscribeOutcomes ==
    { [ok |-> TRUE, text |-> SpokenAnswer],
      [ok |-> TRUE, text |-> " "],
      [ok |-> FALSE, text |-> TranscribeError] }

Strip(t) == IF t = " " THEN "" ELSE t

\* response.text.strip() of a question request that did not raise
generated_text(outcome) == Strip(IF outcome = "ok" THEN GeneratedQuestion ELSE " ")

transcribe_audio_blob(outcome) ==
    IF outcome.ok
    THEN Strip(outcome.text)
    ELSE TranscriptionFailed   \* f"[Transcription failed: {e}]"

\* response of the evaluation request: raises, text without a JSON object,
\* text whose braces do not parse, or a JSON object
EvalOutcomes ==
    { [kind |-> "error", overall_score |-> 0, selected |-> FALSE],
      [kind |-> "no_json", overall_score |-> 0, selected |-> FALSE],
      [kind |-> "bad_json", overall_score |-> 0, selected |-> FALSE],
      [kind |-> "json", overall_score |-> 7, selected |-> TRUE],
      [kind |-> "json", overall_score |-> 11, selected |-> TRUE] }

generate_final_report(outcome) ==
    IF outcome.kind = "json"
    THEN [overall_score |-> outcome.overall_score, selected |-> outcome.selected]
    ELSE [overall_score |-> 5, selected |-> FALSE]

----------------------------------------------------------------------------
(* update_covered_topics *)

Mentioned(name, question_lower, answer_lower) ==
    Occurs(Lower(name), question_lower) \/ Occurs(Lower(name), answer_lower)

\* variant: the lowercased name is recorded
RECURSIVE TrackSkills_lowercased(_, _, _, _)
TrackSkills_lowercased(skills, question_lower, answer_lower, acc) ==
    IF skills = <<>> THEN [set |-> acc, raised |-> FALSE]
    ELSE LET skill == Head(skills) IN
         IF skill.tag # "str" THEN [set |-> acc, raised |-> TRUE]
         ELSE TrackSkills_lowercased(Tail(skills), question_lower, answer_lower,
                          IF Mentioned(skill.val, question_lower, answer_lower)
                          THEN acc \cup {Lower(skill.val)} ELSE acc)

\* the loop over resume_data['skills']: skill.lower() raises on a non-string
RECURSIVE TrackSkills(_, _, _, _)
TrackSkills(skills, question_lower, answer_lower, acc) ==
    IF skills = <<>> THEN [set |-> acc, raised |-> FALSE]
    ELSE LET skill == Head(skills) IN
         IF skill.tag # "str" THEN [set |-> acc, raised |-> TRUE]
         ELSE TrackSkills(Tail(skills), question_lower, answer_lower,
                          IF Mentioned(skill.val, question_lower, answer_lower)
                          THEN acc \cup {skill.val} ELSE acc)

\* the loop over resume_data['projects']: project.get raises on a non-object
RECURSIVE TrackProjects(_, _, _, _)
TrackProjects(projects, question_lower, answer_lower, acc) ==
    IF projects = <<>> THEN [set |-> acc, raised |-> FALSE]
    ELSE LET project == Head(projects) IN
         IF project.tag # "obj" THEN [set |-> acc, raised |-> TRUE]
         ELSE TrackProjects(Tail(projects), question_lower, answer_lower,
                            IF project.val # ""
                               /\ Mentioned(project.val, question_lower, answer_lower)
                            THEN acc \cup {project.val} ELSE acc)

TrackTopics(question_lower, answer_lower) ==
    { topic \in DOMAIN topic_keywords :
        \E keyword \in topic_keywords[topic] :
            Occurs(keyword, question_lower) \/ Occurs(keyword, answer_lower) }

\* [obj: the interview after the call, raised: whether it raised part-way]
update_covered_topics(o, question, answer) ==
    LET question_lower == Lower(question)
        answer_lower == Lower(answer)
        sk == TrackSkills(o.resume_data.skills, question_lower, answer_lower,
                          o.skills_discussed)
        o1 == [o EXCEPT !.skills_discussed = sk.set]
        pr == TrackProjects(o.resume_data.projects, question_lower, answer_lower,
                            o.projects_discussed)
        o2 == [o1 EXCEPT !.projects_discussed = pr.set]
        o3 == [o2 EXCEPT !.covered_topics =
                            @ \cup TrackTopics(question_lower, answer_lower)]
    IN  IF sk.raised THEN [obj |-> o1, raised |-> TRUE]
        ELSE IF pr.raised THEN [obj |-> o2, raised |-> TRUE]
        ELSE [obj |-> o3, raised |-> FALSE]

----------------------------------------------------------------------------
(* The question scheduler.  determine_next_question_type is called by the   *)
(* generation code but defined in none of the source files; it is modelled  *)
(* from the specification's section 4.3.                                    *)

NoCategory == "none"
CategoryCap == (max_questions + Len(Categories) - 1) \div Len(Categories)

determine_next_question_type(o) ==
    LET used(i) == o.question_types_used[Categories[i]]
        eligible == { i \in 1..Len(Categories) : used(i) < CategoryCap }
    IN  IF eligible = {} THEN NoCategory
        ELSE Categories[CHOOSE i \in eligible :
                 \A j \in eligible :
                     used(i) < used(j) \/ (used(i) = used(j) /\ i <= j)]

----------------------------------------------------------------------------
(* The TTS thread pool of an interview: work_queue holds the submitted      *)
(* tasks in order, running the tasks a worker thread is executing.          *)

FixedTask(i) == [kind |-> "fixed", index |-> i, type |-> ""]
DynamicTask == [kind |-> "dynamic", index |-> 0, type |-> ""]
RunningDynamic(type) == [kind |-> "dynamic", index |-> 0, type |-> type]

Submit(o, task) == [o EXCEPT !.work_queue = Append(@, task)]

\* preload_fixed_starter_questions: one load_fixed_question per starter
RECURSIVE SubmitFixedFrom(_, _)
SubmitFixedFrom(o, i) ==
    IF i > Len(fixed_starter_questions) THEN o
    ELSE SubmitFixedFrom(Submit(o, FixedTask(i)), i + 1)

preload_fixed_starter_questions(o) == SubmitFixedFrom(o, 1)

generate_next_question_async(o) == Submit(o, DynamicTask)

RECURSIVE Times(_, _)
Times(o, n) == IF n = 0 THEN o ELSE Times(generate_next_question_async(o), n - 1)

\* the item load_fixed_question puts on the audio queue
FixedItem(i, audio) ==
    [question |-> fixed_starter_questions[i].text, audio |-> audio,
     type |-> fixed_starter_questions[i].type, source |-> "fixed_starter"]

\* variant: a question whose synthesis gave no audio is dropped
load_fixed_question_audio_only(o, task, tts) ==
    IF generate_tts_audio(tts) = None
    THEN [o EXCEPT !.running = @ (-) SetToBag({task})]
    ELSE [o EXCEPT !.running = @ (-) SetToBag({task}),
                   !.audio_queue = Append(@, FixedItem(task.index, AudioBytes))]

\* load_fixed_question, from the TTS call on
load_fixed_question(o, task, tts) ==
    [o EXCEPT !.running = @ (-) SetToBag({task}),
              !.audio_queue = Append(@, FixedItem(task.index, generate_tts_audio(tts)))]

\* generate_and_convert up to the generation request: the two early returns,
\* then the choice of the question type
generate_and_convert_begin(o) ==
    LET rest == [o EXCEPT !.work_queue = Tail(@)]
        question_type == determine_next_question_type(o)
    IN  IF o.questions_asked >= max_questions THEN rest
        ELSE IF o.questions_asked < 3 THEN rest
        ELSE IF question_type = NoCategory THEN rest
        ELSE [rest EXCEPT !.running = @ (+) SetToBag({RunningDynamic(question_type)})]

\* generate_and_convert from the generation request on
generate_and_convert_end(o, task, text, tts) ==
    LET done == [o EXCEPT !.running = @ (-) SetToBag({task})] IN
    IF text = "error" THEN done
    ELSE [done EXCEPT
            !.question_types_used[task.type] = @ + 1,
            !.audio_queue = Append(@, [question |-> generated_text(text),
                                       audio |-> generate_tts_audio(tts),
                                       type |-> task.type,
                                       source |-> "generated"])]

\* generate_and_convert run from its first line to its last with nothing in
\* between: the interview after the task
generate_and_convert(o, text, tts) ==
    LET question_type == determine_next_question_type(o)
        started == generate_and_convert_begin(
                       [o EXCEPT !.work_queue = <<DynamicTask>> \o @])
    IN  IF started.running = o.running THEN started
        ELSE generate_and_convert_end(started, RunningDynamic(question_type),
                                      text, tts)

----------------------------------------------------------------------------
(* WebSocketVoiceInterviewHandler: each operation gives the interview after *)
(* the call (obj) and the dict it returns (ret).                            *)

\* a question_data that is None or empty
NoQuestionData == [question |-> "", audio |-> None, type |-> "", source |-> ""]

\* variant: the except branch gives no question instead of the fallback text
generate_dynamic_question_sync_no_fallback(o, text, tts) ==
    LET question_type == determine_next_question_type(o)
    IN  IF question_type = NoCategory \/ text = "error"
        THEN [obj |-> o, item |-> NoQuestionData]
        ELSE [obj |-> [o EXCEPT !.question_types_used[question_type] = @ + 1],
              item |-> [question |-> generated_text(text),
                        audio |-> generate_tts_audio(tts),
                        type |-> question_type, source |-> "generated_sync"]]

\* variant: the canned question is recorded under its type
generate_dynamic_question_sync_counts_fallback(o, text, tts) ==
    LET question_type == determine_next_question_type(o)
        fallback == [question |-> SyncFallbackQuestion, audio |-> None,
                     type |-> "problem_solving", source |-> "fallback"]
    IN  IF question_type = NoCategory \/ text = "error"
        THEN [obj |-> [o EXCEPT !.question_types_used["problem_solving"] = @ + 1],
              item |-> fallback]
        ELSE [obj |-> [o EXCEPT !.question_types_used[question_type] = @ + 1],
              item |-> [question |-> generated_text(text),
                        audio |-> generate_tts_audio(tts),
                        type |-> question_type, source |-> "generated_sync"]]

\* _generate_dynamic_question_sync: [obj, item]
generate_dynamic_question_sync(o, text, tts) ==
    LET question_type == determine_next_question_type(o)
        fallback == [question |-> SyncFallbackQuestion, audio |-> None,
                     type |-> "problem_solving", source |-> "fallback"]
    IN  IF question_type = NoCategory \/ text = "error"
        THEN [obj |-> o, item |-> fallback]
        ELSE [obj |-> [o EXCEPT !.question_types_used[question_type] = @ + 1],
              item |-> [question |-> generated_text(text),
                        audio |-> generate_tts_audio(tts),
                        type |-> question_type, source |-> "generated_sync"]]

\* audio_queue.get_nowait(), or the except branch when the queue is empty
DequeueOr(o, otherwise) ==
    IF o.audio_queue # <<>>
    THEN [obj |-> [o EXCEPT !.audio_queue = Tail(@)], item |-> Head(o.audio_queue)]
    ELSE otherwise

\* variant: the guard lets the call at the limit through
InterviewCompleted_past_limit(o) == o.questions_asked > max_questions

InterviewCompleted(o) == o.questions_asked >= max_questions

\* the question of the result: a dequeued item, the fixed text, or a
\* synchronously generated question
NextQuestionData(o, text, tts) ==
    IF o.questions_asked < 3
    THEN DequeueOr(o, [obj |-> o,
                       item |-> FixedItem(o.questions_asked + 1, None)])
    ELSE DequeueOr(o, generate_dynamic_question_sync(o, text, tts))

\* variant: the question is served from the interview object without the
\* test of the session map
get_next_question_any_id(o, s, known, text, tts) ==
    IF InterviewCompleted(o)
    THEN [obj |-> o, ret |-> Failure("get_next_question", s, "Interview completed")]
    ELSE LET q == NextQuestionData(o, text, tts) IN
         [obj |-> q.obj,
          ret |-> [NoRet EXCEPT !.op = "get_next_question", !.sid = s,
                                !.success = TRUE,
                                !.question_number = o.questions_asked + 1,
                                !.question_text = q.item.question,
                                !.question_type = q.item.type,
                                !.has_audio = (q.item.audio # None)]]

get_next_question(o, s, known, text, tts) ==
    IF ~known THEN [obj |-> o, ret |-> Failure("get_next_question", s, "Session not found")]
    ELSE IF InterviewCompleted(o)
    THEN [obj |-> o, ret |-> Failure("get_next_question", s, "Interview completed")]
    ELSE LET q == NextQuestionData(o, text, tts) IN
         IF q.item = NoQuestionData
         THEN [obj |-> q.obj,
               ret |-> Failure("get_next_question", s, "Could not generate question")]
         ELSE
         [obj |-> q.obj,
          ret |-> [NoRet EXCEPT !.op = "get_next_question", !.sid = s,
                                !.success = TRUE,
                                !.question_number = o.questions_asked + 1,
                                !.question_text = q.item.question,
                                !.question_type = q.item.type,
                                !.has_audio = (q.item.audio # None)]]

\* variant: the starter texts are looked up one position late
CurrentQuestion_shifted(o) ==
    IF o.questions_asked < 3 /\ o.questions_asked > 0
    THEN fixed_starter_questions[o.questions_asked].text
    ELSE UnknownQuestion

\* the text submit_answer files the answer under
CurrentQuestion(o) ==
    IF o.questions_asked < 3
    THEN fixed_starter_questions[o.questions_asked + 1].text
    ELSE UnknownQuestion

NeedsNextQuestion(o) ==
    o.questions_asked < max_questions /\ o.questions_asked >= 3

submit_answer(o, s, known, outcome) ==
    IF ~known THEN [obj |-> o, ret |-> Failure("submit_answer", s, "Session not found")]
    ELSE LET current_question == CurrentQuestion(o)
             transcription == transcribe_audio_blob(outcome)
             counted == [o EXCEPT !.questions_asked = @ + 1]
             upd == update_covered_topics(counted, current_question, transcription)
             filed == [upd.obj EXCEPT !.qa_history =
                         Append(@, [question_number |-> upd.obj.questions_asked,
                                    question |-> current_question,
                                    answer |-> transcription])]
             after == IF NeedsNextQuestion(filed)
                      THEN generate_next_question_async(filed) ELSE filed
         IN  IF upd.raised
             THEN [obj |-> upd.obj,
                   ret |-> Failure("submit_answer", s, "object has no attribute")]
             ELSE [obj |-> after,
                   ret |-> [NoRet EXCEPT !.op = "submit_answer", !.sid = s,
                               !.success = TRUE,
                               !.transcription = transcription,
                               !.question_number = after.questions_asked,
                               !.next_available =
                                   (after.questions_asked < max_questions)]]

\* variant: the report is made without looking the id up
get_final_report_unchecked(o, s, known, outcome) ==
    LET report == generate_final_report(outcome) IN
    [NoRet EXCEPT !.op = "get_final_report", !.sid = s, !.success = TRUE,
                  !.overall_score = report.overall_score,
                  !.selected = report.selected]

get_final_report(o, s, known, outcome) ==
    IF ~known THEN Failure("get_final_report", s, "Session not found")
    ELSE LET report == generate_final_report(outcome) IN
         [NoRet EXCEPT !.op = "get_final_report", !.sid = s, !.success = TRUE,
                       !.overall_score = report.overall_score,
                       !.selected = report.selected]

\* variant: an id the session map does not hold is an error
cleanup_session_known_only(session_map, chunk_map, s) ==
    IF s \in session_map
    THEN [sessions |-> session_map \ {s}, audio_chunks |-> chunk_map \ {s},
          ret |-> [NoRet EXCEPT !.op = "cleanup_session", !.sid = s, !.success = TRUE]]
    ELSE [sessions |-> session_map, audio_chunks |-> chunk_map,
          ret |-> Failure("cleanup_session", s, "Session not found")]

\* cleanup_session: the two maps after the call and the dict it returns
\* variant: the whole session map is cleared
cleanup_session_every_id(session_map, chunk_map, s) ==
    [sessions |-> {},
     audio_chunks |-> {},
     ret |-> [NoRet EXCEPT !.op = "cleanup_session", !.sid = s, !.success = TRUE]]

cleanup_session(session_map, chunk_map, s) ==
    [sessions |-> session_map \ {s},
     audio_chunks |-> chunk_map \ {s},
     ret |-> [NoRet EXCEPT !.op = "cleanup_session", !.sid = s, !.success = TRUE]]

\* get_session_status, for an id the handler holds.  The function stands in
\* the source after the return of get_voice_interview_handler: no caller can
\* reach it, so it is no action of the handler; it is the one place that says
\* when an interview is complete.
get_session_status(o) ==
    [questions_asked |-> o.questions_asked,
     total_questions |-> max_questions,
     is_complete |-> o.questions_asked >= max_questions]

\* create_session once the resume text is there
StartInterview(resume, job) ==
    Times(preload_fixed_starter_questions(
              [NewInterview EXCEPT !.resume_data = resume, !.job_data = job]),
          SpeculativeTasks)

ResumeFiles == {"missing", "no_text", "ok"}

\* variant: the session is stored before the resume file is looked at
create_session_stored_first(o, session_map, chunk_map, s, file, resume, job) ==
    [obj |-> IF file = "ok" THEN StartInterview(resume, job) ELSE NewInterview,
     sessions |-> session_map \cup {s},
     audio_chunks |-> chunk_map \cup {s},
     ret |-> IF file = "missing"
             THEN Failure("create_session", s, "Resume file not found")
             ELSE IF file = "no_text"
             THEN Failure("create_session", s, "Could not extract text from resume file")
             ELSE [NoRet EXCEPT !.op = "create_session", !.sid = s, !.success = TRUE]]

\* create_session: the interview of the id, the two maps and the returned dict
create_session(o, session_map, chunk_map, s, file, resume, job) ==
    IF file = "missing"
    THEN [obj |-> o, sessions |-> session_map, audio_chunks |-> chunk_map,
          ret |-> Failure("create_session", s, "Resume file not found")]
    ELSE IF file = "no_text"
    THEN [obj |-> o, sessions |-> session_map, audio_chunks |-> chunk_map,
          ret |-> Failure("create_session", s,
                          "Could not extract text from resume file")]
    ELSE [obj |-> StartInterview(resume, job),
          sessions |-> session_map \cup {s},
          audio_chunks |-> chunk_map \cup {s},
          ret |-> [NoRet EXCEPT !.op = "create_session", !.sid = s, !.success = TRUE]]

----------------------------------------------------------------------------
(* Actions *)

Outstanding(o) == Len(o.work_queue) + BagCardinality(o.running)

\* An interview the session map no longer holds is referenced by the tasks of
\* its pool only: when none is left the object is freed (__del__).
Collect(o, known) ==
    IF ~known /\ Outstanding(o) = 0 THEN NewInterview ELSE o

\* a handler call works on an interview whose pool has tasks outstanding
Racing(s) == s \in sessions /\ Outstanding(interview[s]) > 0

\* the number of the given events that are irregular
Count(events) == Cardinality({i \in DOMAIN events : events[i]})

\* the step may take the events, and pays for them
Spend(events) ==
    /\ Count(events) <= budget
    /\ budget' = budget - Count(events)

\* create_session with the state of the resume file and the outcomes of the
\* two parse requests
CreateSessionWith(s, file, resume, job) ==
    /\ Spend(<<Racing(s), file = "ok" /\ (resume.error \/ job.error)>>)
    /\ LET r == create_session(interview[s], sessions, audio_chunks, s,
                               file, resume, job)
       IN
       /\ interview' = [interview EXCEPT ![s] = r.obj]
       /\ sessions' = r.sessions
       /\ audio_chunks' = r.audio_chunks
       /\ ret' = r.ret
       /\ delivered' = IF r.ret.success
                       THEN [delivered EXCEPT ![s] = NothingDelivered]
                       ELSE delivered
       /\ awaiting' = IF r.ret.success
                      THEN [awaiting EXCEPT ![s] = FALSE]
                      ELSE awaiting
    /\ UNCHANGED pending

\* without resume text the parse requests are never made
CreateSession(s) ==
    \/ \E file \in ResumeFiles \ {"ok"} :
         CreateSessionWith(s, file, WellFormedResume, WellFormedJob)
    \/ \E resume \in ResumeOutcomes, job \in JobOutcomes :
         CreateSessionWith(s, "ok", resume, job)

\* get_next_question from its lookup of the session on
GetNextQuestionCall(s) ==
    /\ \E text \in TextOutcomes, tts \in TtsOutcomes :
         LET r == get_next_question(interview[s], s, s \in sessions, text, tts)
             again == r.ret.success /\ awaiting[s]
         IN
         /\ Spend(<<Racing(s), again>>)
         /\ interview' = [interview EXCEPT ![s] = r.obj]
         /\ ret' = r.ret
         /\ delivered' = IF r.ret.success
                         THEN [delivered EXCEPT ![s] =
                                 [number |-> r.ret.question_number,
                                  text |-> r.ret.question_text]]
                         ELSE delivered
         /\ awaiting' = IF r.ret.success THEN [awaiting EXCEPT ![s] = TRUE]
                        ELSE awaiting
    /\ UNCHANGED <<sessions, audio_chunks>>

GetNextQuestion(s) == GetNextQuestionCall(s) /\ UNCHANGED pending

Nominal(outcome) == outcome.ok /\ Strip(outcome.text) # ""

\* submit_answer from its lookup of the session on
SubmitAnswerCall(s) ==
    /\ \E outcome \in TranscribeOutcomes :
         LET known == s \in sessions
             r == submit_answer(interview[s], s, known, outcome)
             unasked == known /\ ~awaiting[s]
             poor == known /\ ~Nominal(outcome)
         IN
         /\ known => interview[s].questions_asked < MaxAsked
         /\ Spend(<<Racing(s), unasked, poor>>)
         /\ interview' = [interview EXCEPT ![s] = r.obj]
         /\ ret' = r.ret
         /\ awaiting' = IF known THEN [awaiting EXCEPT ![s] = FALSE] ELSE awaiting
    /\ UNCHANGED <<sessions, audio_chunks, delivered>>

SubmitAnswer(s) == SubmitAnswerCall(s) /\ UNCHANGED pending

\* get_final_report from its lookup of the session on
GetFinalReportCall(s) ==
    /\ Spend(<<Racing(s)>>)
    /\ \E outcome \in EvalOutcomes :
         ret' = get_final_report(interview[s], s, s \in sessions, outcome)
    /\ UNCHANGED <<sessions, audio_chunks, interview, delivered, awaiting>>

GetFinalReport(s) == GetFinalReportCall(s) /\ UNCHANGED pending

\* cleanup_session: the interview object lives on while its pool runs tasks
CleanupSessionCall(s) ==
    /\ Spend(<<Racing(s)>>)
    /\ LET r == cleanup_session(sessions, audio_chunks, s) IN
        /\ sessions' = r.sessions
        /\ audio_chunks' = r.audio_chunks
        /\ ret' = r.ret
    /\ interview' = [interview EXCEPT ![s] = Collect(@, FALSE)]
    /\ delivered' = [delivered EXCEPT ![s] = NothingDelivered]
    /\ awaiting' = [awaiting EXCEPT ![s] = FALSE]

CleanupSession(s) == CleanupSessionCall(s) /\ UNCHANGED pending

\* A pool step returns nothing to a caller: ret shows a handler's dict only in
\* the state its call leaves.
PoolStep ==
    /\ ret' = NoRet
    /\ UNCHANGED <<sessions, audio_chunks, delivered, awaiting, pending>>

\* a worker thread of the pool takes the next task off the work queue
StartFixed(s) ==
    LET o == interview[s] IN
    /\ o.work_queue # <<>>
    /\ Head(o.work_queue).kind = "fixed"
    /\ BagCardinality(o.running) < max_workers
    /\ interview' = [interview EXCEPT ![s] =
            [o EXCEPT !.work_queue = Tail(@),
                      !.running = @ (+) SetToBag({Head(o.work_queue)})]]
    /\ PoolStep
    /\ UNCHANGED budget

\* load_fixed_question of the running task, its TTS call ending in tts
FinishFixedWith(s, task, tts) ==
    /\ task.kind = "fixed"
    /\ Spend(<<tts # "audio">>)
    /\ interview' = [interview EXCEPT ![s] =
            Collect(load_fixed_question(interview[s], task, tts), s \in sessions)]
    /\ PoolStep

FinishFixed(s) ==
    \E task \in BagToSet(interview[s].running), tts \in TtsOutcomes :
        FinishFixedWith(s, task, tts)

StartDynamic(s) ==
    LET o == interview[s] IN
    /\ o.work_queue # <<>>
    /\ Head(o.work_queue).kind = "dynamic"
    /\ BagCardinality(o.running) < max_workers
    /\ interview' = [interview EXCEPT ![s] =
                        Collect(generate_and_convert_begin(o), s \in sessions)]
    /\ PoolStep
    /\ UNCHANGED budget

\* generate_and_convert of the running task, its calls ending in text and tts
FinishDynamicWith(s, task, text, tts) ==
    /\ task.kind = "dynamic"
    /\ Spend(<<text # "ok" \/ tts # "audio">>)
    /\ interview' = [interview EXCEPT ![s] =
            Collect(generate_and_convert_end(interview[s], task, text, tts),
                    s \in sessions)]
    /\ PoolStep

FinishDynamic(s) ==
    \E task \in BagToSet(interview[s].running),
       text \in TextOutcomes, tts \in TtsOutcomes :
        FinishDynamicWith(s, task, text, tts)

Next ==
    \E s \in SessionIds :
        \/ CreateSession(s)
        \/ GetNextQuestion(s)
        \/ SubmitAnswer(s)
        \/ GetFinalReport(s)
        \/ CleanupSession(s)
        \/ StartFixed(s)
        \/ FinishFixed(s)
        \/ StartDynamic(s)
        \/ FinishDynamic(s)

Spec == Init /\ [][Next]_vars

\* Two clients, each with its own session id, on the one handler: every
\* event is regular and each interview is followed up to PairAsked answers.
\* Below three answers generate_and_convert returns at once (StartDynamic),
\* so no dynamic task is ever running here.
PairInit == InitWith(0)

\* create_session whose parse requests give well-formed data
PairCreateSession(s) ==
    \E file \in ResumeFiles :
        CreateSessionWith(s, file, WellFormedResume, WellFormedJob)

\* submit_answer while the interview is below PairAsked answers
PairSubmitAnswer(s) ==
    /\ interview[s].questions_asked < PairAsked
    /\ SubmitAnswer(s)

PairNext ==
    \E s \in PairIds :
        \/ PairCreateSession(s)
        \/ GetNextQuestion(s)
        \/ PairSubmitAnswer(s)
        \/ GetFinalReport(s)
        \/ CleanupSession(s)
        \/ StartFixed(s)
        \/ FinishFixed(s)
        \/ StartDynamic(s)

PairSpec == PairInit /\ [][PairNext]_vars

\* Threaded serving of one session: a handler call is two steps, the test
\* `session_id in self.sessions` and the rest from `self.sessions[session_id]`
\* on, and steps of other calls may come between the two.
RaceInit == InitWith(0)

HandlerCalls ==
    {"get_next_question", "submit_answer", "get_final_report", "cleanup_session"}

\* str(KeyError(session_id)), what the handler's `except Exception` returns
KeyErrorText == "KeyError"

\* the membership test of a handler call finds the session
CheckMembership(s, op) ==
    /\ s \in sessions
    /\ <<op, s>> \notin pending
    /\ Cardinality(pending) < MaxPending
    /\ pending' = pending \cup {<<op, s>>}
    /\ UNCHANGED <<sessions, audio_chunks, interview, ret, delivered, awaiting,
                   budget>>

\* `self.sessions[session_id]` of a call whose session has gone since its test
LookupFails(s, op) ==
    /\ s \notin sessions
    /\ ret' = Failure(op, s, KeyErrorText)
    /\ UNCHANGED <<sessions, audio_chunks, interview, delivered, awaiting,
                   budget>>

Lookup(s, op, Call) ==
    /\ <<op, s>> \in pending
    /\ pending' = pending \ {<<op, s>>}
    /\ IF s \in sessions THEN Call ELSE LookupFails(s, op)

LookupGetNextQuestion(s) ==
    Lookup(s, "get_next_question", GetNextQuestionCall(s))

LookupSubmitAnswer(s) ==
    /\ interview[s].questions_asked < PairAsked
    /\ Lookup(s, "submit_answer", SubmitAnswerCall(s))

LookupGetFinalReport(s) ==
    Lookup(s, "get_final_report", GetFinalReportCall(s))

LookupCleanupSession(s) ==
    Lookup(s, "cleanup_session", CleanupSessionCall(s))

\* a handler call whose membership test does not find the session
UnknownSession(s) ==
    /\ s \notin sessions
    /\ \/ GetNextQuestion(s)
       \/ SubmitAnswer(s)
       \/ GetFinalReport(s)
       \/ CleanupSession(s)

RaceNext ==
    \E s \in SessionIds :
        \/ PairCreateSession(s)
        \/ \E op \in HandlerCalls : CheckMembership(s, op)
        \/ LookupGetNextQuestion(s)
        \/ LookupSubmitAnswer(s)
        \/ LookupGetFinalReport(s)
        \/ LookupCleanupSession(s)
        \/ UnknownSession(s)
        \/ StartFixed(s)
        \/ FinishFixed(s)
        \/ StartDynamic(s)

RaceSpec == RaceInit /\ [][RaceNext]_vars

\* A session after create_session while the client sends nothing more: only
\* the worker threads of its pool take steps.  No answer is submitted, so no
\* generate_and_convert gets past its early return and none is left running.
PreloadCreateSession(s) ==
    /\ s \notin sessions
    /\ CreateSession(s)

PreloadNext ==
    \E s \in SessionIds :
        \/ PreloadCreateSession(s)
        \/ StartFixed(s)
        \/ FinishFixed(s)
        \/ StartDynamic(s)

\* ThreadPoolExecutor: a submitted task is taken by a free worker, and a
\* running task returns
PoolFairness ==
    \A s \in SessionIds :
        /\ WF_vars(StartFixed(s))
        /\ WF_vars(FinishFixed(s))
        /\ WF_vars(StartDynamic(s))

PreloadSpec == Init /\ [][PreloadNext]_vars /\ PoolFairness

\* A client that answers the three starter questions in turn and then asks
\* for the next question again and again: nothing in get_next_question ties a
\* call to an answer, so each call on an empty queue generates a question.
ScheduleInit == InitWith(MaxRepeats)

ScheduleCreateSession(s) ==
    /\ s \notin sessions
    /\ PairCreateSession(s)

ScheduleGetNextQuestion(s) ==
    /\ ~Racing(s)
    /\ GetNextQuestion(s)

ScheduleSubmitAnswer(s) ==
    /\ ~Racing(s)
    /\ awaiting[s]
    /\ interview[s].questions_asked < Len(fixed_starter_questions)
    /\ SubmitAnswer(s)

ScheduleNext ==
    \E s \in SessionIds :
        \/ ScheduleCreateSession(s)
        \/ ScheduleGetNextQuestion(s)
        \/ ScheduleSubmitAnswer(s)
        \/ StartFixed(s)
        \/ FinishFixed(s)
        \/ StartDynamic(s)
        \/ FinishDynamic(s)

ScheduleSpec == ScheduleInit /\ [][ScheduleNext]_vars

----------------------------------------------------------------------------
(* Properties *)

qa(s) == interview[s].questions_asked

\* no irregular event has happened: the client has alternated
\* get_next_question and submit_answer, no call met an unfinished pool task
\* and no collaborator outcome was degraded
Regular == budget = MaxIrregular

\* C1: every successful submit_answer raises questions_asked by exactly one,
\* and questions_asked stays within 0..max_questions.
C1_CounterWithinLimit ==
    [][\A s \in SessionIds :
         /\ interview'[s].questions_asked \in 0..max_questions
         /\ (ret'.op = "submit_answer" /\ ret'.sid = s /\ ret'.success)
                => interview'[s].questions_asked = qa(s) + 1]_vars

\* C2: the questions delivered with the numbers 1, 2 and 3 are the three
\* fixed starter questions in their order, whether they come out of the audio
\* queue or out of the fallback.
C2_FixedStartersInOrder ==
    (ret.op = "get_next_question" /\ ret.success /\ ret.question_number \in 1..3)
        => ret.question_text = fixed_starter_questions[ret.question_number].text

\* C3: the history entry a submit_answer appends holds the question text that
\* get_next_question delivered for that number.
C3_HistoryHoldsDeliveredText ==
    (/\ ret.op = "submit_answer" /\ ret.success
     /\ delivered[ret.sid].number = ret.question_number)
        => LET history == interview[ret.sid].qa_history IN
           /\ history # <<>>
           /\ history[Len(history)].question = delivered[ret.sid].text

\* C4: after every operation the history has questions_asked entries and its
\* i-th entry has the question number i.
C4_HistoryMatchesCounter ==
    \A s \in SessionIds :
        LET history == interview[s].qa_history IN
        /\ Len(history) = qa(s)
        /\ \A i \in 1..Len(history) : history[i].question_number = i

\* C5: get_next_question on a session whose questions_asked equals
\* max_questions fails with "Interview completed" and changes nothing of the
\* session: no item leaves the audio queue, no question is generated.
C5_CompletedInterviewUntouched ==
    [][\A s \in SessionIds :
         (/\ s \in sessions
          /\ qa(s) = max_questions
          /\ ret'.op = "get_next_question" /\ ret'.sid = s)
            => /\ ~ret'.success
               /\ ret'.error = "Interview completed"
               /\ interview'[s] = interview[s]
               /\ sessions' = sessions
               /\ audio_chunks' = audio_chunks]_vars

\* C5: the call was refused at the limit while the audio queue still held an
\* item
C5_Witness ==
    /\ ret.op = "get_next_question"
    /\ ret.error = "Interview completed"
    /\ qa(ret.sid) = max_questions
    /\ interview[ret.sid].audio_queue # <<>>

\* C6: the question numbers of the successive successful get_next_question
\* calls of a session are 1, 2, 3, ...: each is one more than the number
\* delivered before it.
C6_NumbersIncrease ==
    [][\A s \in SessionIds :
         (ret'.op = "get_next_question" /\ ret'.sid = s /\ ret'.success)
            => ret'.question_number = delivered[s].number + 1]_vars

C8_TranscriptionNeverEmpty ==
    (ret.op = "submit_answer" /\ ret.success)
        => /\ ret.transcription # ""
           /\ ret.transcription \in {SpokenAnswer, "[Transcription failed]"}

\* C9: for a client that alternates get_next_question and submit_answer on a
\* fresh session, every submit_answer up to the 15th succeeds and returns the
\* number of the answer and next_available = (questions_asked < max_questions):
\* true for the submissions 1..14, false for the 15th.
C9_NextAvailableUntilLimit ==
    (/\ ret.op = "submit_answer"
     /\ ret.sid \in sessions
     /\ Regular
     /\ qa(ret.sid) <= max_questions)
        => /\ ret.success
           /\ ret.question_number = qa(ret.sid)
           /\ ret.next_available = (qa(ret.sid) < max_questions)

\* C10: get_final_report on an existing session returns a report whose
\* overall_score lies in 1..10, whatever the evaluation call gives.
C10_ScoreWithinScale ==
    (ret.op = "get_final_report" /\ ret.sid \in sessions)
        => /\ ret.success
           /\ ret.overall_score \in 1..10

\* C11: every cleanup_session returns success; a call on an id the handler
\* holds removes the session and its audio buffer, a call on an id it no
\* longer holds (the second of two consecutive calls) changes nothing; the
\* interviews of the other ids are the same before and after.
C11_CleanupIdempotent ==
    [][\A s \in PairIds :
         (ret'.op = "cleanup_session" /\ ret'.sid = s)
            => /\ ret'.success
               /\ sessions' = sessions \ {s}
               /\ audio_chunks' = audio_chunks \ {s}
               /\ \A t \in PairIds \ {s} : interview'[t] = interview[t]
               /\ s \notin sessions
                    => /\ sessions' = sessions
                       /\ audio_chunks' = audio_chunks
                       /\ interview' = interview]_vars

\* C11: a session was cleaned up while the other client's interview, with an
\* answer on file, stayed in the store
C11_Witness ==
    /\ ret.op = "cleanup_session" /\ ret.success
    /\ ret.sid \notin sessions /\ ret.sid \notin audio_chunks
    /\ \E t \in sessions : t # ret.sid /\ Len(interview[t].qa_history) = 1

\* C12: get_next_question, submit_answer and get_final_report on an id the
\* handler does not hold fail with "Session not found" and change nothing:
\* the session map, the audio buffers and every interview (its counter, its
\* history, the tasks of its pool) are the same before and after.
C12_UnknownSessionRefused ==
    [][\A s \in PairIds :
         (/\ s \notin sessions
          /\ ret'.op \in {"get_next_question", "submit_answer", "get_final_report"}
          /\ ret'.sid = s)
            => /\ ~ret'.success
               /\ ret'.error = "Session not found"
               /\ sessions' = sessions
               /\ audio_chunks' = audio_chunks
               /\ interview' = interview]_vars

\* C12: an answer was submitted under an id that is not in the store while
\* the other client's interview, with an answer on file, was
C12_Witness ==
    /\ ret.op = "submit_answer"
    /\ ret.error = "Session not found"
    /\ ret.sid \notin sessions
    /\ \E t \in sessions : Len(interview[t].qa_history) = 1

\* the queue after is the queue before with one item more, of the given
\* question, whose audio is None exactly when the synthesis gave none
PushedOne(before, after, question, tts) ==
    /\ Len(after) = Len(before) + 1
    /\ SubSeq(after, 1, Len(before)) = before
    /\ after[Len(after)].question = question
    /\ (after[Len(after)].audio = None) <=> (tts # "audio")

\* C13: a synthesis that fails or gives no audio loses no question: every
\* load_fixed_question and every generate_and_convert whose text generation
\* succeeded puts exactly one item on the audio queue of its session, with
\* audio None when there is no audio, and get_next_question delivers the
\* queued item with has_audio false exactly when its audio is None.
C13_SynthesisFailureKeepsQuestion ==
    [][\A s \in SessionIds :
         s \in sessions =>
           LET before == interview[s].audio_queue
               after == interview'[s].audio_queue
           IN
           /\ \A task \in BagToSet(interview[s].running), tts \in TtsOutcomes :
                /\ FinishFixedWith(s, task, tts)
                     => PushedOne(before, after,
                                  fixed_starter_questions[task.index].text, tts)
                /\ \A text \in TextOutcomes \ {"error"} :
                     FinishDynamicWith(s, task, text, tts)
                       => PushedOne(before, after, generated_text(text), tts)
           /\ (/\ ret'.op = "get_next_question" /\ ret'.sid = s /\ ret'.success
               /\ before # <<>>)
                => /\ after = Tail(before)
                   /\ ret'.question_text = Head(before).question
                   /\ ret'.has_audio = (Head(before).audio # None)]_vars

\* C13: a generated question whose synthesis gave no audio is on the queue
C13_Witness ==
    \E s \in sessions :
        \E i \in 1..Len(interview[s].audio_queue) :
            /\ interview[s].audio_queue[i].source = "generated"
            /\ interview[s].audio_queue[i].question = GeneratedQuestion
            /\ interview[s].audio_queue[i].audio = None

\* C14: a failed text generation for a dynamic question is replaced by a
\* canned question of the type behavioral: the pool task still puts one item
\* on the audio queue, and the synchronous generation of get_next_question
\* still returns one question.
C14_CannedBehavioralFallback ==
    [][\A s \in SessionIds :
         s \in sessions =>
           LET before == interview[s].audio_queue
               after == interview'[s].audio_queue
           IN
           /\ \A task \in BagToSet(interview[s].running), tts \in TtsOutcomes :
                FinishDynamicWith(s, task, "error", tts)
                  => /\ Len(after) = Len(before) + 1
                     /\ after[Len(after)].question # ""
                     /\ after[Len(after)].type = "behavioral"
           /\ (/\ ret'.op = "get_next_question" /\ ret'.sid = s
               /\ ret'.question_text = SyncFallbackQuestion)
                => /\ ret'.success
                   /\ ret'.question_type = "behavioral"]_vars

\* C15: in every session no question category is recorded more than
\* CategoryCap = 2 times, counting the questions of the pool tasks and of the
\* synchronous generation, also when generations overlap.
C15_CategoryCapRespected ==
    \A s \in SessionIds :
        \A i \in 1..Len(Categories) :
            interview[s].question_types_used[Categories[i]] <= CategoryCap

\* C16: the first three entries of qa_history, as far as they exist, hold the
\* texts of the fixed starter questions in their order, whatever text
\* get_next_question delivered under those numbers.
C16_HistoryStartsWithStarters ==
    \A s \in SessionIds :
        LET history == interview[s].qa_history IN
        \A i \in 1..Len(history) :
            i <= 3 => history[i].question = fixed_starter_questions[i].text

\* C16: three answers are on file and the question delivered as number 3 was
\* not the third starter question
C16_Witness ==
    \E s \in sessions :
        /\ Len(interview[s].qa_history) = 3
        /\ delivered[s].number = 3
        /\ delivered[s].text # fixed_starter_questions[3].text

\* the values of the given tag in a JSON list
Values(list, tag) == {list[i].val : i \in {j \in 1..Len(list) : list[j].tag = tag}}

\* C17: in every session skills_discussed is a subset of the skills of the
\* resume and projects_discussed a subset of the names of its projects.
C17_DiscussedWithinResume ==
    \A s \in SessionIds :
        /\ interview[s].skills_discussed
              \subseteq Values(interview[s].resume_data.skills, "str")
        /\ interview[s].projects_discussed
              \subseteq Values(interview[s].resume_data.projects, "obj")

\* C17: an answer naming one skill and the project of the resume was filed:
\* both are recorded, the skill it did not name is not
C17_Witness ==
    \E s \in sessions :
        /\ interview[s].skills_discussed = {"Go"}
        /\ interview[s].projects_discussed = {"Ava"}
        /\ "SQL" \in Values(interview[s].resume_data.skills, "str")

C19_ParseErrorBlocksCreation ==
    [][\A s \in SessionIds :
         \A resume \in ResumeOutcomes, job \in JobOutcomes :
             (CreateSessionWith(s, "ok", resume, job) /\ (resume.error \/ job.error))
               => /\ ~ret'.success
                  /\ sessions' = sessions
                  /\ audio_chunks' = audio_chunks]_vars

\* C20: a session becomes complete only with questions_asked = max_questions
\* and a final report produced: it turns complete in a successful
\* get_final_report and in no other step, a successful get_final_report at
\* questions_asked = max_questions leaves it complete, and a get_final_report
\* below max_questions does not.
C20_CompletedByFinalReport ==
    [][\A s \in SessionIds :
         s \in sessions' =>
           LET before == get_session_status(interview[s]).is_complete
               after == get_session_status(interview'[s]).is_complete
               reported == /\ ret'.op = "get_final_report" /\ ret'.sid = s
                           /\ ret'.success
           IN
           /\ after => interview'[s].questions_asked = max_questions
           /\ (~before /\ after) => reported
           /\ (reported /\ qa(s) = max_questions) => after
           /\ (reported /\ qa(s) < max_questions) => ~after]_vars

\* C21: when cleanup_session runs concurrently with another call on the same
\* session id, the other call returns what it returns on a live session or
\* "Session not found", and every cleanup_session returns success.
C21_CleanupRaceIsSerial ==
    ret.op \in HandlerCalls =>
        /\ ret.error # KeyErrorText
        /\ ret.op = "cleanup_session" => ret.success

\* C22: after create_session, under fair scheduling of the pool, the audio
\* queue eventually holds the three fixed starter items and one item for each
\* of the seven speculative tasks, with no answer submitted.
C22_EverySubmittedTaskPushes ==
    \A s \in SessionIds :
        (s \in sessions) ~>
            (Len(interview[s].audio_queue)
                = Len(fixed_starter_questions) + SpeculativeTasks)

\* C23: a question delivered by get_next_question at a position above three
\* is not one of the fixed starter questions.
C23_DynamicAboveThree ==
    (ret.op = "get_next_question" /\ ret.success /\ ret.question_number > 3) =>
        \A i \in DOMAIN fixed_starter_questions :
            ret.question_text # fixed_starter_questions[i].text

\* C24: a submit_answer on a live session submits exactly one
\* generate_and_convert task to the pool when the counter after its increment
\* is at least 3 and below max_questions, and none otherwise.
C24_ReplenishOnePerAnswer ==
    [][\A s \in SessionIds :
        (ret'.op = "submit_answer" /\ ret'.sid = s /\ s \in sessions) =>
            interview'[s].work_queue =
                IF qa(s)' >= 3 /\ qa(s)' < max_questions
                THEN Append(interview[s].work_queue, DynamicTask)
                ELSE interview[s].work_queue]_vars

\* C25: a step that leaves a session in place and changes its
\* questions_asked or its qa_history is a submit_answer that returns success;
\* get_next_question, get_final_report and the pool tasks change neither.
C25_OnlySuccessfulSubmitCounts ==
    [][\A s \in SessionIds :
        (/\ s \in sessions /\ s \in sessions'
         /\ ret'.op # "create_session"
         /\ \/ qa(s)' # qa(s)
            \/ interview'[s].qa_history # interview[s].qa_history)
        => (ret'.op = "submit_answer" /\ ret'.sid = s /\ ret'.success)]_vars

\* C26: once cleanup_session has removed a session, the tasks of its pool that
\* were queued or running put their results on the orphaned interview only: no
\* pool step changes the session map, and every later call on the id other
\* than create_session and cleanup_session returns "Session not found".
C26_OrphanedTasksDiscarded ==
    [][\A s \in SessionIds :
        s \notin sessions =>
            /\ ret'.op = "none" =>
                    (sessions' = sessions /\ audio_chunks' = audio_chunks)
            /\ (/\ ret'.sid = s
                /\ ret'.op \in HandlerCalls \ {"cleanup_session"})
               => (~ret'.success /\ ret'.error = "Session not found")]_vars

\* get_next_question is refused on the removed id while the orphaned interview
\* holds a queued question and its pool still works
C26_Witness ==
    \E s \in SessionIds :
        /\ s \notin sessions
        /\ interview[s].audio_queue # <<>>
        /\ Outstanding(interview[s]) > 0
        /\ ret.op = "get_next_question" /\ ret.sid = s

\* category counts and diversity sets of an interview
Accounting(o) ==
    <<o.question_types_used, o.covered_topics, o.projects_discussed,
      o.skills_discussed>>

\* C27: from the same state of a live interview past its third answer, the
\* synchronous generation and the pool task leave the same category counts and
\* the same diversity sets, whether the text generation succeeds or fails.
C27_SameAccounting ==
    \A s \in SessionIds :
        (s \in sessions /\ qa(s) >= 3 /\ qa(s) < max_questions) =>
            \A text \in TextOutcomes, tts \in TtsOutcomes :
                Accounting(generate_dynamic_question_sync(interview[s], text, tts).obj)
                    = Accounting(generate_and_convert(interview[s], text, tts))

\* the synchronous generation has just served its canned question in an
\* interview that has recorded generated questions
C27_Witness ==
    \E s \in SessionIds :
        /\ s \in sessions /\ qa(s) >= 3 /\ qa(s) < max_questions
        /\ ret.op = "get_next_question" /\ ret.sid = s
        /\ ret.question_text = SyncFallbackQuestion
        /\ \E c \in QuestionTypes : interview[s].question_types_used[c] > 0

RECURSIVE Selections(_, _)
\* the recorded selections of the first n categories
Selections(o, n) ==
    IF n = 0 THEN 0
    ELSE o.question_types_used[Categories[n]] + Selections(o, n - 1)

\* the step is a synchronous generation or a pool task choosing its type
GenerationAttempted(s) ==
    /\ s \in sessions
    /\ qa(s) >= 3 /\ ~InterviewCompleted(interview[s])
    /\ \/ /\ ret'.op = "get_next_question" /\ ret'.sid = s
          /\ interview[s].audio_queue = <<>>
       \/ /\ ret'.op = "none"
          /\ interview[s].work_queue # <<>>
          /\ Head(interview[s].work_queue).kind = "dynamic"
          /\ interview'[s].work_queue = Tail(interview[s].work_queue)

\* C28: whenever a dynamic generation is attempted some category is below the
\* cap, so that the scheduler has a category to return, and the selections
\* recorded in one session never exceed nine times the cap.
C28_SchedulerNeverExhausted ==
    /\ [](\A s \in SessionIds :
            Selections(interview[s], Len(Categories))
                <= Len(Categories) * CategoryCap)
    /\ [][\A s \in SessionIds :
            GenerationAttempted(s) =>
                determine_next_question_type(interview[s]) # NoCategory]_vars

\* C29: the tasks that worker threads are executing, counted over all live
\* sessions of the process, are at most max_workers.
C29_PoolBoundPerProcess ==
    \A a, b \in PairIds :
        (a # b /\ a \in sessions /\ b \in sessions) =>
            BagCardinality(interview[a].running)
                + BagCardinality(interview[b].running) <= max_workers

\* what a session keeps for itself
SessionState(o) ==
    <<o.questions_asked, o.qa_history, Accounting(o), o.audio_queue>>

\* the step is a handler call on the id or a step of a task of its pool
ActsOn(a) ==
    \/ ret'.op \in HandlerCalls /\ ret'.sid = a
    \/ ret'.op = "none" /\ interview'[a] # interview[a]

\* C30: a get_next_question, submit_answer, get_final_report or
\* cleanup_session on a live session, and a step of a task of its pool, leave
\* every other live session in the session map with its counter, history,
\* diversity sets, category counts and audio queue unchanged.
C30_SessionsIsolated ==
    [][\A a, b \in PairIds :
        (a # b /\ a \in sessions /\ b \in sessions /\ ActsOn(a)) =>
            /\ b \in sessions'
            /\ SessionState(interview'[b]) = SessionState(interview[b])]_vars

\* an answer has just been filed in one session while the other live session
\* holds an answer of its own
C30_Witness ==
    \E a, b \in PairIds :
        /\ a # b /\ a \in sessions /\ b \in sessions
        /\ ret.op = "submit_answer" /\ ret.sid = a /\ ret.success
        /\ Len(interview[b].qa_history) = 1

====
